---- MODULE Spec2Model ----
(***************************************************************************)
(* A model of anti_sandbox_detector/scripts/trace_comparator.py.           *)
(*                                                                         *)
(* run() submits one compare_trace call per device/emulator trace-file     *)
(* pair to a multiprocessing Pool and collects the results in submission   *)
(* order.  compare_trace decodes both files with the external dmtracedump, *)
(* parses the text (process_trace), scores every device thread against     *)
(* every emulator thread (trace_similarity), matches threads with          *)
(* scipy.optimize.linear_sum_assignment, filters the matched traces        *)
(* (clean_trace), scans aligned pairs in lockstep and writes the records.  *)
(*                                                                         *)
(* Text is modelled as the list of lines trace_str.split(os.linesep)       *)
(* yields; a line is a record naming which of the module's regular         *)
(* expressions it matches and the groups the match yields.  Floats are     *)
(* modelled as exact fractions <<numerator, denominator>>.                 *)
(***************************************************************************)
EXTENDS Integers, Sequences, FiniteSets, TLC

VARIABLES tasks, process_num, pc, status, files, printed

vars == <<tasks, process_num, pc, status, files, printed>>

----------------------------------------------------------------------------
(* Bounds of the model.                                                    *)

\* longest raw event sequence of a thread in the single-thread inputs
MaxLen == 3
\* most threads declared by one trace in the multi-thread inputs
MaxThreads == 2
\* most trace-file pairs run() submits in the multi-task inputs
MaxTasks == 3
\* largest worker-pool size (config_json["process_num"])
MaxProcs == 2

----------------------------------------------------------------------------
(* Sequence helpers.                                                       *)

Min(a, b) == IF a <= b THEN a ELSE b

Max(a, b) == IF a >= b THEN a ELSE b

\* Python's s[lo:hi] for 0 <= lo, on a 1-based TLA+ sequence
Slice(s, lo, hi) == SubSeq(s, lo + 1, Min(hi, Len(s)))

\* str.startswith, on sequences of tokens
StartsWith(s, p) == Len(p) <= Len(s) /\ SubSeq(s, 1, Len(p)) = p

Range(s) == {s[i] : i \in 1..Len(s)}

\* Python's None and a present value, for the optional context fields
None == <<>>

Some(v) == <<v>>

----------------------------------------------------------------------------
(* Fractions stand for the floats the code computes.                       *)

Frac(n, d) == <<n, d>>

FracEq(a, b) == a[1] * b[2] = b[1] * a[2]

FracLeq(a, b) == a[1] * b[2] <= b[1] * a[2]

FracAdd(a, b) == <<a[1] * b[2] + b[1] * a[2], a[2] * b[2]>>

FracMul(a, b) == <<a[1] * b[1], a[2] * b[2]>>

FracNeg(a) == <<0 - a[1], a[2]>>

----------------------------------------------------------------------------
(* Trace strings.  process_trace formats an event as                       *)
(* "<act><marks> <class.method> <field> <field>"; the model keeps the      *)
(* action, the '!' marks and the rest, the rest as a token sequence whose  *)
(* first token is the namespace prefix.                                    *)

TraceStr(act, excl, cm) == [act |-> act, excl |-> excl, cm |-> cm]

\* skips "ent " and any non-letters after it, returns the rest
trace_str_to_class_method(trace_str) == trace_str.cm

ex_class_list ==
    << <<"android.">>, <<"com.android">>, <<"com.google.android.collect">>,
       <<"dalvik.system">>, <<"java.">>, <<"libcore.">>, <<"sun.">> >>

trace_removed(trace_str) ==
    \E k \in 1..Len(ex_class_list) :
        StartsWith(trace_str_to_class_method(trace_str), ex_class_list[k])

clean_trace(trace_list) ==
    SelectSeq(trace_list, LAMBDA trace_str : ~trace_removed(trace_str))

----------------------------------------------------------------------------
(* Decoded text, as lines.                                                 *)

VersionLine(v) == [t |-> "version", v |-> v]

ThreadsLine(n) == [t |-> "threads", n |-> n]

ThreadLine(tid, name) == [t |-> "thread", tid |-> tid, name |-> name]

\* the one line between the thread table and the events, skipped unread
SepLine == [t |-> "sep"]

EventLine(tid, usecs, ts) == [t |-> "event", tid |-> tid, usecs |-> usecs, ts |-> ts]

\* the empty string: what split() yields after the text's final line break
EmptyLine == [t |-> "empty"]

\* a line cut short by a truncated output, followed by nothing
PartialLine == [t |-> "partial"]

\* the events of thread tid among lines[from..to], in file order
RECURSIVE EventsOf(_, _, _, _)
EventsOf(lines, tid, from, to) ==
    IF from > to THEN <<>>
    ELSE IF lines[from].tid = tid
         THEN <<lines[from].ts>> \o EventsOf(lines, tid, from + 1, to)
         ELSE EventsOf(lines, tid, from + 1, to)

\* index of the first line at or after idx that is not an event line
\* (Len(lines) + 1 when there is none)
RECURSIVE BodyEnd(_, _)
BodyEnd(lines, idx) ==
    IF idx > Len(lines) THEN idx
    ELSE IF lines[idx].t = "event" THEN BodyEnd(lines, idx + 1)
    ELSE idx

Raised == [raised |-> TRUE]

process_trace(trace_lines) ==
    LET n == Len(trace_lines)
    IN  IF n < 1 \/ trace_lines[1].t # "version" THEN Raised
        ELSE IF n < 2 \/ trace_lines[2].t # "threads" THEN Raised
        ELSE
          LET thread_num == trace_lines[2].n
              body == thread_num + 4
              last == BodyEnd(trace_lines, body)
              tids == {trace_lines[2 + i].tid : i \in 1..thread_num}
          IN  IF \E i \in 1..thread_num :
                     2 + i > n \/ trace_lines[2 + i].t # "thread" THEN Raised
              ELSE IF last > n \/ trace_lines[last].t # "empty" THEN Raised
              ELSE IF \E k \in body..(last - 1) : trace_lines[k].tid \notin tids
                   THEN Raised
              ELSE
                LET name(tid) ==
                        trace_lines[CHOOSE k \in 3..(2 + thread_num) :
                            /\ trace_lines[k].tid = tid
                            /\ \A m \in (k + 1)..(2 + thread_num) :
                                   trace_lines[m].tid # tid].name
                    kept == {tid \in tids :
                                EventsOf(trace_lines, tid, body, last - 1) # <<>>}
                IN  [raised |-> FALSE,
                     version |-> trace_lines[1].v,
                     thread_info |->
                        [tid \in kept |->
                            [name |-> name(tid),
                             trace |-> EventsOf(trace_lines, tid, body, last - 1)]]]

----------------------------------------------------------------------------
(* Similarity of two threads: name similarity times coverage similarity.   *)

\* len(os.path.commonprefix([name_a, name_b]))
RECURSIVE commonprefix_len(_, _)
commonprefix_len(name_a, name_b) ==
    IF name_a = <<>> \/ name_b = <<>> \/ Head(name_a) # Head(name_b) THEN 0
    ELSE 1 + commonprefix_len(Tail(name_a), Tail(name_b))

class_methods(trace) == {trace_str_to_class_method(trace[i]) : i \in 1..Len(trace)}

\* a float division by zero raises ZeroDivisionError
trace_similarity(name_a, trace_a, name_b, trace_b) ==
    LET class_methods_a == class_methods(trace_a)
        class_methods_b == class_methods(trace_b)
        name_den == Max(Len(name_a), Len(name_b))
        cov_den == Cardinality(class_methods_a \cup class_methods_b)
    IN  IF name_den = 0 \/ cov_den = 0 THEN Raised
        ELSE [raised |-> FALSE,
              val |-> FracMul(
                  Frac(commonprefix_len(name_a, name_b), name_den),
                  Frac(Cardinality(class_methods_a \cap class_methods_b), cov_den))]

----------------------------------------------------------------------------
(* Matching.                                                               *)

\* sorted(d.keys())
RECURSIVE sorted(_)
sorted(S) ==
    IF S = {} THEN <<>>
    ELSE LET lo == CHOOSE x \in S : \A y \in S : x <= y
         IN  <<lo>> \o sorted(S \ {lo})

\* a faulty variant of score: the traces are filtered before they are scored
score_filtered(r_info, e_info, tid_r, tid_e) ==
    trace_similarity(r_info[tid_r].name, clean_trace(r_info[tid_r].trace),
                     e_info[tid_e].name, clean_trace(e_info[tid_e].trace))

\* the score of device thread r_tid_list[i] against emulator thread
\* e_tid_list[j], computed on the traces as parsed
score(r_info, e_info, tid_r, tid_e) ==
    trace_similarity(r_info[tid_r].name, r_info[tid_r].trace,
                     e_info[tid_e].name, e_info[tid_e].trace)

\* sim_matrix[i][j] = -trace_similarity(...)
sim_matrix_of(r_info, e_info, r_tid_list, e_tid_list) ==
    [i \in 1..Len(r_tid_list), j \in 1..Len(e_tid_list) |->
        FracNeg(score(r_info, e_info, r_tid_list[i], e_tid_list[j]).val)]

Injective(f) == \A a, b \in DOMAIN f : f[a] = f[b] => a = b

\* every complete assignment of an n x m matrix, as the list of (row, column)
\* pairs in ascending row order: min(n, m) pairs
Assignments(n, m) ==
    IF n <= m
    THEN {[x \in 1..n |-> <<x, f[x]>>] : f \in {g \in [1..n -> 1..m] : Injective(g)}}
    ELSE {[k \in 1..m |->
              LET rows == sorted({f[y] : y \in 1..m})
              IN  <<rows[k], CHOOSE y \in 1..m : f[y] = rows[k]>>] :
          f \in {g \in [1..m -> 1..n] : Injective(g)}}

RECURSIVE Cost(_, _)
Cost(matrix, pairs) ==
    IF pairs = <<>> THEN Frac(0, 1)
    ELSE FracAdd(matrix[Head(pairs)[1], Head(pairs)[2]], Cost(matrix, Tail(pairs)))

\* scipy.optimize.linear_sum_assignment: an assignment of least total cost;
\* which one, among several of the same cost, is the solver's choice
linear_sum_assignment(matrix, n, m) ==
    LET all == Assignments(n, m)
        least == CHOOSE a \in all :
                    \A b \in all : FracLeq(Cost(matrix, a), Cost(matrix, b))
    IN  {a \in all : FracLeq(Cost(matrix, a), Cost(matrix, least))}

----------------------------------------------------------------------------
(* The lockstep scan of one matched pair and its record.                   *)

\* a faulty variant of trace_aligned: every matched pair is scanned
trace_aligned_always(real_device_trace, emulator_trace) == TRUE

\* a faulty variant of trace_aligned: an empty sequence is aligned with nothing
trace_aligned_nonempty(real_device_trace, emulator_trace) ==
    /\ Len(real_device_trace) # 0
    /\ Len(emulator_trace) # 0
    /\ real_device_trace[1] = emulator_trace[1]

trace_aligned(real_device_trace, emulator_trace) ==
    \/ Len(real_device_trace) = 0
    \/ Len(emulator_trace) = 0
    \/ real_device_trace[1] = emulator_trace[1]

\* a faulty variant of scan: the loop stops one index early
RECURSIVE scan_stops_early(_, _, _, _)
scan_stops_early(real_device_trace, emulator_trace, trace_idx, max_common_len) ==
    IF trace_idx < max_common_len - 1
    THEN IF real_device_trace[trace_idx + 1] # emulator_trace[trace_idx + 1]
         THEN trace_idx
         ELSE scan_stops_early(real_device_trace, emulator_trace, trace_idx + 1,
                               max_common_len)
    ELSE trace_idx

\* the while loop: the value of trace_idx when it ends (0-based index)
RECURSIVE scan(_, _, _, _)
scan(real_device_trace, emulator_trace, trace_idx, max_common_len) ==
    IF trace_idx < max_common_len
    THEN IF real_device_trace[trace_idx + 1] # emulator_trace[trace_idx + 1]
         THEN trace_idx
         ELSE scan(real_device_trace, emulator_trace, trace_idx + 1, max_common_len)
    ELSE trace_idx

\* a faulty variant of context: the slice starts at the diverging event
context_without_previous(trace, trace_idx, max_common_len) ==
    IF trace_idx < max_common_len
    THEN Some(Slice(trace, trace_idx, trace_idx + 1))
    ELSE None

\* a faulty variant of context: the bound is tested with <=
context_inclusive(trace, trace_idx, max_common_len) ==
    IF trace_idx <= max_common_len
    THEN Some(Slice(trace, Max(0, trace_idx - 1), trace_idx + 1))
    ELSE None

\* trace[max(0, trace_idx - 1):trace_idx + 1] if trace_idx < max_common_len else None
context(trace, trace_idx, max_common_len) ==
    IF trace_idx < max_common_len
    THEN Some(Slice(trace, Max(0, trace_idx - 1), trace_idx + 1))
    ELSE None

\* a faulty variant of sim_max_common_of: the division is Python 2's integer division
sim_max_common_floor(trace_idx, max_common_len) ==
    IF max_common_len # 0 THEN Frac(trace_idx \div max_common_len, 1) ELSE Frac(1, 1)

\* float(trace_idx) / max_common_len if max_common_len else 1.0
sim_max_common_of(trace_idx, max_common_len) ==
    IF max_common_len # 0 THEN Frac(trace_idx, max_common_len) ELSE Frac(1, 1)

max_common_len_of(real_device_trace, emulator_trace) ==
    Min(Len(real_device_trace), Len(emulator_trace))

\* the records one matched pair (x, y) appends: one when aligned, else none
pair_records(r_info, e_info, tid_r, tid_e, sim) ==
    LET real_device_trace == clean_trace(r_info[tid_r].trace)
        emulator_trace == clean_trace(e_info[tid_e].trace)
        max_common_len == max_common_len_of(real_device_trace, emulator_trace)
        trace_idx == scan(real_device_trace, emulator_trace, 0, max_common_len)
    IN  IF trace_aligned(real_device_trace, emulator_trace)
        THEN << [real_id |-> tid_r,
                 real_name |-> r_info[tid_r].name,
                 real_trace |-> context(real_device_trace, trace_idx, max_common_len),
                 emu_id |-> tid_e,
                 emu_name |-> e_info[tid_e].name,
                 e_trace |-> context(emulator_trace, trace_idx, max_common_len),
                 sim_cov |-> FracNeg(sim),
                 max_common_len |-> max_common_len,
                 diverge_idx |-> trace_idx,
                 sim_max_common |-> sim_max_common_of(trace_idx, max_common_len)] >>
        ELSE <<>>

RECURSIVE trace_similarity_list(_, _, _, _, _, _)
trace_similarity_list(r_info, e_info, r_tid_list, e_tid_list, sim_matrix, pairs) ==
    IF pairs = <<>> THEN <<>>
    ELSE LET x == Head(pairs)[1]
             y == Head(pairs)[2]
         IN  pair_records(r_info, e_info, r_tid_list[x], e_tid_list[y], sim_matrix[x, y])
             \o trace_similarity_list(r_info, e_info, r_tid_list, e_tid_list,
                                      sim_matrix, Tail(pairs))

----------------------------------------------------------------------------
(* compare_trace.  A decoder run is [rc, out]: its exit status and the     *)
(* lines of what it printed.                                               *)

\* p.communicate()[0]: the decoder's standard output; its exit status is
\* not read
communicate(p) == p.out

\* the outcomes of compare_trace on two decoder runs: it raises, or it
\* writes the list of records to output_file_path
compare_trace(real_device_p, emulator_p) ==
    LET real_device_trace_obj == process_trace(communicate(real_device_p))
        emulator_trace_obj == process_trace(communicate(emulator_p))
    IN  IF real_device_trace_obj.raised \/ emulator_trace_obj.raised THEN {Raised}
        ELSE
          LET r_info == real_device_trace_obj.thread_info
              e_info == emulator_trace_obj.thread_info
              r_tid_list == sorted(DOMAIN r_info)
              e_tid_list == sorted(DOMAIN e_info)
          IN  IF \E tid_r \in DOMAIN r_info, tid_e \in DOMAIN e_info :
                     score(r_info, e_info, tid_r, tid_e).raised
              THEN {Raised}
              ELSE
                LET sim_matrix == sim_matrix_of(r_info, e_info, r_tid_list, e_tid_list)
                IN  {[raised |-> FALSE,
                      written |-> trace_similarity_list(r_info, e_info, r_tid_list,
                                                        e_tid_list, sim_matrix, pairs)] :
                     pairs \in linear_sum_assignment(sim_matrix, Len(r_tid_list),
                                                     Len(e_tid_list))}

----------------------------------------------------------------------------
(* Inputs: trace files and what the decoder prints for them.               *)

entF == TraceStr("ent", "", <<"java.", "lang.Object.hashCode">>)

entA == TraceStr("ent", "", <<"com.app.", "Check.isEmulator">>)

entB == TraceStr("ent", "", <<"com.app.", "Main.run">>)

xitA == TraceStr("xit", "", <<"com.app.", "Check.isEmulator">>)

Seqs(S, n) == UNION {[1..k -> S] : k \in 0..n}

\* a thread of a trace file: its id, its name and its events
Thread(tid, name, trace) == [tid |-> tid, name |-> name, trace |-> trace]

RECURSIVE MaxTraceLen(_)
MaxTraceLen(doc) ==
    IF doc = <<>> THEN 0 ELSE Max(Len(Head(doc).trace), MaxTraceLen(Tail(doc)))

\* the event lines of a file: the threads' events interleaved, each thread's
\* own events in order
RECURSIVE EventLines(_, _, _)
EventLines(doc, round, k) ==
    IF round > MaxTraceLen(doc) THEN <<>>
    ELSE IF k > Len(doc) THEN EventLines(doc, round + 1, 1)
    ELSE IF round <= Len(doc[k].trace)
         THEN <<EventLine(doc[k].tid, round, doc[k].trace[round])>>
              \o EventLines(doc, round, k + 1)
         ELSE EventLines(doc, round, k + 1)

\* the lines of the decoder's complete output for a file (the final
\* EmptyLine is what follows the last line break)
Serialize(doc) ==
    <<VersionLine(2), ThreadsLine(Len(doc))>>
    \o [k \in 1..Len(doc) |-> ThreadLine(doc[k].tid, doc[k].name)]
    \o <<SepLine>>
    \o EventLines(doc, 1, 1)
    \o <<EmptyLine>>

\* a decoder run: exit status, printed lines, and the file decoded
Popen(rc, out, doc) == [rc |-> rc, out |-> out, doc |-> doc]

Decoded(doc) == Popen(0, Serialize(doc), doc)

\* every run of the decoder on a file: any exit status, and the output whole,
\* cut at a line break (k lines kept) or cut inside line k + 1
DecoderRuns(doc) ==
    LET full == Serialize(doc)
        lines == Len(full) - 1
    IN  {Popen(rc, SubSeq(full, 1, k) \o <<EmptyLine>>, doc) :
            rc \in {0, 1}, k \in 0..lines}
        \cup {Popen(rc, SubSeq(full, 1, k) \o <<PartialLine>>, doc) :
            rc \in {0, 1}, k \in 0..(lines - 1)}

\* the decoder failed: non-zero exit, or an output that is not the whole dump
DecoderFailed(p) == p.rc # 0 \/ p.out # Serialize(p.doc)

Pair(real_device_p, emulator_p) ==
    [real_device_p |-> real_device_p, emulator_p |-> emulator_p]

NameM == <<"m">>

NameMN == <<"m", "n">>

NameN == <<"n">>

\* one thread a side with the given event sequences: the scan's cases
ScanInput(a, b) ==
    Pair(Decoded(<<Thread(1, NameM, a)>>), Decoded(<<Thread(11, NameM, b)>>))

ScanTraces == Seqs({entF, entA, entB}, MaxLen)

\* one thread a side with the given names and sequences: the similarity's cases
NameInput(na, a, nb, b) ==
    Pair(Decoded(<<Thread(1, na, a)>>), Decoded(<<Thread(11, nb, b)>>))

Names == {<<>>, NameM, NameMN}

NameTraces == {<<entA>>, <<xitA>>, <<entF, entA>>}

MatchTraces == {<<>>, <<entF>>, <<entA>>, <<entF, entB>>}

DeviceName(k) == <<NameM, NameMN, NameN>>[((k - 1) % 3) + 1]

EmulatorName(k) == <<NameMN, NameN, NameM>>[((k - 1) % 3) + 1]

\* up to MaxThreads threads a side: the matcher's cases.  Device threads
\* are declared in ascending, emulator threads in descending id order.
DeviceDocs ==
    UNION {{[k \in 1..n |-> Thread(k, DeviceName(k), tr[k])] :
               tr \in [1..n -> MatchTraces]} : n \in 1..MaxThreads}

EmulatorDocs ==
    UNION {{[k \in 1..n |-> Thread(10 + n + 1 - k, EmulatorName(k), tr[k])] :
               tr \in [1..n -> MatchTraces]} : n \in 1..MaxThreads}

\* small files, decoded in every way: the decoder's failures
SmallDocs(tid) == {<<Thread(tid, NameM, <<entA>>)>>, <<Thread(tid, NameM, <<entA, entB>>)>>}

GoodPair ==
    Pair(Decoded(<<Thread(1, NameM, <<entA, entB>>)>>),
         Decoded(<<Thread(11, NameM, <<entA, entA>>)>>))

\* a pair whose device trace the decoder printed nothing for
BadPair ==
    Pair(Popen(1, <<EmptyLine>>, <<Thread(1, NameM, <<entA, entB>>)>>),
         Decoded(<<Thread(11, NameM, <<entA, entA>>)>>))

----------------------------------------------------------------------------
(* run(): the pool and the collection loop.                                *)
(*   pc       where run() is: "submit" (the apply_async loop), "collect"   *)
(*            (the get() loop), "closed" (after pool.join()), "raised" (a  *)
(*            get() re-raised a worker's exception and run() was left),    *)
(*            "exited" (the interpreter ended and terminated the pool)     *)
(*   status   of each submitted call: "new", "queued", "running", "done",  *)
(*            "raised", "killed"                                           *)
(*   files    what each call wrote to its output file: None or Some(list)  *)
(*   printed  the calls whose result run() printed, in order               *)

NumTasks == Len(tasks)

\* one trace-file pair, one worker
Single(t) == tasks = <<t>> /\ process_num = 1

Init ==
    /\ \/ \E a \in ScanTraces, b \in ScanTraces : Single(ScanInput(a, b))
       \/ \E na \in Names, nb \in Names, a \in NameTraces, b \in NameTraces :
            Single(NameInput(na, a, nb, b))
       \/ \E d \in DeviceDocs, e \in EmulatorDocs : Single(Pair(Decoded(d), Decoded(e)))
       \/ \E d \in SmallDocs(1), e \in SmallDocs(11) :
            \E p \in DecoderRuns(d), q \in DecoderRuns(e) : Single(Pair(p, q))
       \/ /\ \E n \in 1..MaxTasks : tasks \in [1..n -> {GoodPair, BadPair}]
          /\ process_num \in 1..MaxProcs
    /\ pc = "submit"
    /\ status = [i \in 1..Len(tasks) |-> "new"]
    /\ files = [i \in 1..Len(tasks) |-> None]
    /\ printed = <<>>

\* pool.apply_async(compare_trace, ...) for the next pair; after the last
\* one run() goes on to collect
Submit ==
    /\ pc = "submit"
    /\ \E i \in 1..NumTasks :
        /\ status[i] = "new"
        /\ \A j \in 1..(i - 1) : status[j] # "new"
        /\ status' = [status EXCEPT ![i] = "queued"]
        /\ pc' = IF i = NumTasks THEN "collect" ELSE "submit"
    /\ UNCHANGED <<tasks, process_num, files, printed>>

\* an idle worker takes the oldest queued call
WorkerTake ==
    /\ pc # "exited"
    /\ Cardinality({j \in 1..NumTasks : status[j] = "running"}) < process_num
    /\ \E i \in 1..NumTasks :
        /\ status[i] = "queued"
        /\ \A j \in 1..(i - 1) : status[j] # "queued"
        /\ status' = [status EXCEPT ![i] = "running"]
    /\ UNCHANGED <<tasks, process_num, pc, files, printed>>

\* a worker runs compare_trace to its end: the file is written and the call
\* returns, or the call raises and writes nothing
WorkerRun ==
    /\ pc # "exited"
    /\ \E i \in 1..NumTasks :
        /\ status[i] = "running"
        /\ \E res \in compare_trace(tasks[i].real_device_p, tasks[i].emulator_p) :
            /\ status' = [status EXCEPT ![i] = IF res.raised THEN "raised" ELSE "done"]
            /\ files' = [files EXCEPT ![i] = IF res.raised THEN None
                                              ELSE Some(res.written)]
    /\ UNCHANGED <<tasks, process_num, pc, printed>>

\* print async_result.get(): blocks until the next call in submission order
\* has ended; get() re-raises what the call raised, and nothing catches it
Get ==
    /\ pc = "collect"
    /\ Len(printed) < NumTasks
    /\ LET i == Len(printed) + 1
       IN  /\ status[i] \in {"done", "raised"}
           /\ printed' = IF status[i] = "done" THEN Append(printed, i) ELSE printed
           /\ pc' = IF status[i] = "done" THEN "collect" ELSE "raised"
    /\ UNCHANGED <<tasks, process_num, status, files>>

\* pool.close(); pool.join(): reached only when every get() returned
Close ==
    /\ pc = "collect"
    /\ Len(printed) = NumTasks
    /\ pc' = "closed"
    /\ UNCHANGED <<tasks, process_num, status, files, printed>>

\* the exception leaves run() and main(): the interpreter exits and the
\* pool's finalizer terminates the workers, with the calls still queued or
\* running
Exit ==
    /\ pc = "raised"
    /\ pc' = "exited"
    /\ status' = [i \in 1..NumTasks |->
                    IF status[i] \in {"queued", "running"} THEN "killed" ELSE status[i]]
    /\ UNCHANGED <<tasks, process_num, files, printed>>

Next == Submit \/ WorkerTake \/ WorkerRun \/ Get \/ Close \/ Exit

Spec == Init /\ [][Next]_vars

----------------------------------------------------------------------------
(* What the claims speak of.                                               *)

Written(i) == files[i] # None

Records(i) == files[i][1]

\* the threads of call i's two inputs as parsed (defined when it wrote)
RInfo(i) == process_trace(tasks[i].real_device_p.out).thread_info

EInfo(i) == process_trace(tasks[i].emulator_p.out).thread_info

\* the filtered sequences A (device) and B (emulator) of a record's pair
SeqA(i, r) == clean_trace(RInfo(i)[r.real_id].trace)

SeqB(i, r) == clean_trace(EInfo(i)[r.emu_id].trace)

ThreadsMin(i) == Min(Cardinality(DOMAIN RInfo(i)), Cardinality(DOMAIN EInfo(i)))

Aligned(A, B) == A = <<>> \/ B = <<>> \/ Head(A) = Head(B)

\* the (device id, emulator id) pairs of an assignment of a matrix whose
\* rows and columns are the sorted thread ids
TidPairs(r_tid_list, e_tid_list, pairs) ==
    [k \in 1..Len(pairs) |-> <<r_tid_list[pairs[k][1]], e_tid_list[pairs[k][2]]>>]

\* the ways the matcher may pair call i's threads, as thread-id pairs
Matchings(i) ==
    LET r_info == RInfo(i)
        e_info == EInfo(i)
        r_tid_list == sorted(DOMAIN r_info)
        e_tid_list == sorted(DOMAIN e_info)
    IN  {TidPairs(r_tid_list, e_tid_list, pairs) :
            pairs \in linear_sum_assignment(
                sim_matrix_of(r_info, e_info, r_tid_list, e_tid_list),
                Len(r_tid_list), Len(e_tid_list))}

AllRecords(P(_, _)) ==
    \A i \in 1..NumTasks : Written(i) =>
        \A k \in 1..Len(Records(i)) : P(i, Records(i)[k])

SomeRecord(P(_, _)) ==
    \E i \in 1..NumTasks : Written(i) /\
        \E k \in 1..Len(Records(i)) : P(i, Records(i)[k])

----------------------------------------------------------------------------
(* C1 as stated: every pair of threads the matcher chose yields a record,  *)
(* also when the first events differ, so the number of records written     *)
(* equals min(device threads, emulator threads).                           *)
C1_RecordPerMatchedPair ==
    \A i \in 1..NumTasks : Written(i) => Len(Records(i)) = ThreadsMin(i)

(* C1 amended: the records written are those of the matched pairs that     *)
(* are aligned (a filtered sequence empty, or equal first events), in      *)
(* matching order; a matched pair whose filtered sequences are both        *)
(* non-empty with different first events yields no record; so the number   *)
(* of records is at most min(device threads, emulator threads).            *)
C1_RecordPerAlignedPair ==
    \A i \in 1..NumTasks : Written(i) =>
        LET r_info == RInfo(i)
            e_info == EInfo(i)
            AlignedPair(p) == Aligned(clean_trace(r_info[p[1]].trace),
                                      clean_trace(e_info[p[2]].trace))
            ids == [k \in 1..Len(Records(i)) |->
                        <<Records(i)[k].real_id, Records(i)[k].emu_id>>]
        IN  /\ Len(ids) <= ThreadsMin(i)
            /\ \E pairs \in Matchings(i) :
                /\ Len(pairs) = ThreadsMin(i)
                /\ ids = SelectSeq(pairs, AlignedPair)

(* C1 witness: a file written with two matched pairs and one record: one   *)
(* pair was unaligned and left no record.                                  *)
C1_Witness ==
    \E i \in 1..NumTasks :
        Written(i) /\ ThreadsMin(i) = 2 /\ Len(Records(i)) = 1

----------------------------------------------------------------------------
FilteredScore(i, r) ==
    trace_similarity(r.real_name, SeqA(i, r), r.emu_name, SeqB(i, r))

RawScore(i, r) ==
    trace_similarity(RInfo(i)[r.real_id].name, RInfo(i)[r.real_id].trace,
                     EInfo(i)[r.emu_id].name, EInfo(i)[r.emu_id].trace)

SimCovIsFiltered(i, r) ==
    FilteredScore(i, r).raised \/ FracEq(r.sim_cov, FilteredScore(i, r).val)

SimCovIsRaw(i, r) ==
    /\ ~RawScore(i, r).raised
    /\ FracEq(r.sim_cov, RawScore(i, r).val)
    /\ r.sim_cov[2] > 0
    /\ r.real_name = RInfo(i)[r.real_id].name
    /\ r.emu_name = EInfo(i)[r.emu_id].name

RawDiffersFromFiltered(i, r) ==
    /\ ~FilteredScore(i, r).raised
    /\ ~FracEq(RawScore(i, r).val, FilteredScore(i, r).val)
    /\ FracEq(r.sim_cov, RawScore(i, r).val)

(* C2 as stated: clean_trace is applied before the score is computed: the  *)
(* sim_cov of every record is trace_similarity of the two filtered         *)
(* sequences (wherever that is defined).                                   *)
C2_ScoreOnFiltered == AllRecords(SimCovIsFiltered)

(* C2 amended: the sim_cov of every record is trace_similarity of the two  *)
(* sequences as parsed, unfiltered, under the two threads' names;          *)
(* clean_trace is applied after the matching, to the matched pair's        *)
(* sequences only.                                                         *)
C2_ScoreOnRaw == AllRecords(SimCovIsRaw)

(* C2 witness: a record whose score on the raw traces, which it reports,   *)
(* differs from the score on the filtered traces.                          *)
C2_Witness == SomeRecord(RawDiffersFromFiltered)

----------------------------------------------------------------------------
NoEmptiedThread(i, r) == SeqA(i, r) # <<>> /\ SeqB(i, r) # <<>>

TrivialRecord(r) ==
    /\ r.max_common_len = 0
    /\ r.diverge_idx = 0
    /\ r.real_trace = None
    /\ r.e_trace = None
    /\ r.sim_max_common = Frac(1, 1)

EmptiedIsTrivial(i, r) ==
    (SeqA(i, r) = <<>> \/ SeqB(i, r) = <<>>) => TrivialRecord(r)

EmptiedDeviceThread(i, r) == SeqA(i, r) = <<>> /\ SeqB(i, r) # <<>>

(* C3 as stated: a thread whose sequence is non-empty as parsed and empty  *)
(* after clean_trace is excluded from matching: no record names it.        *)
C3_EmptiedThreadExcluded == AllRecords(NoEmptiedThread)

(* C3 amended: such a thread is not excluded.  It is matched like any      *)
(* other (when its side has no more threads than the other side, exactly   *)
(* one record names it), and every record that names it has                *)
(* max_common_len 0, diverge_idx 0, no context and sim_max_common 1.0.     *)
C3_EmptiedThreadMatched ==
    /\ AllRecords(EmptiedIsTrivial)
    /\ \A i \in 1..NumTasks : Written(i) =>
        LET r_info == RInfo(i)
            e_info == EInfo(i)
            recs == Records(i)
        IN  /\ Cardinality(DOMAIN r_info) <= Cardinality(DOMAIN e_info) =>
                \A tid \in DOMAIN r_info : clean_trace(r_info[tid].trace) = <<>> =>
                    Cardinality({k \in 1..Len(recs) : recs[k].real_id = tid}) = 1
            /\ Cardinality(DOMAIN e_info) <= Cardinality(DOMAIN r_info) =>
                \A tid \in DOMAIN e_info : clean_trace(e_info[tid].trace) = <<>> =>
                    Cardinality({k \in 1..Len(recs) : recs[k].emu_id = tid}) = 1

(* C3 witness: a record naming a device thread that clean_trace emptied,   *)
(* paired with an emulator thread it did not empty.                        *)
C3_Witness == SomeRecord(EmptiedDeviceThread)

----------------------------------------------------------------------------
Fails(i) == Raised \in compare_trace(tasks[i].real_device_p, tasks[i].emulator_p)

(* C4: when a comparison fails, every other submitted comparison still     *)
(* runs to completion, has its result collected by run() and its output    *)
(* file written: once run() is over, every call that does not itself fail  *)
(* is done, written and printed.                                           *)
C4_SiblingsComplete ==
    pc \in {"closed", "exited"} =>
        \A i \in 1..NumTasks : ~Fails(i) =>
            /\ status[i] = "done"
            /\ Written(i)
            /\ i \in Range(printed)

----------------------------------------------------------------------------
(* C5: when the decoder fails for either input file (non-zero exit, empty  *)
(* or truncated output), compare_trace fails and writes no output file.    *)
C5_DecoderFailureWritesNothing ==
    \A i \in 1..NumTasks :
        (DecoderFailed(tasks[i].real_device_p) \/ DecoderFailed(tasks[i].emulator_p)) =>
            status[i] # "done" /\ ~Written(i)

----------------------------------------------------------------------------
ZeroDenominator(name_a, trace_a, name_b, trace_b) ==
    \/ name_a = <<>> /\ name_b = <<>>
    \/ class_methods(trace_a) \cup class_methods(trace_b) = {}

(* C6: trace_similarity returns 0, and does not raise, when a ratio has a  *)
(* zero denominator (both names empty, or an empty union of method sets),  *)
(* stated of every pair of threads a finished call scored.                 *)
C6_ZeroDenominatorScoresZero ==
    \A i \in 1..NumTasks : status[i] \in {"done", "raised"} =>
        LET r_obj == process_trace(tasks[i].real_device_p.out)
            e_obj == process_trace(tasks[i].emulator_p.out)
        IN  (~r_obj.raised /\ ~e_obj.raised) =>
              \A tid_r \in DOMAIN r_obj.thread_info, tid_e \in DOMAIN e_obj.thread_info :
                LET a == r_obj.thread_info[tid_r]
                    b == e_obj.thread_info[tid_e]
                    sim == trace_similarity(a.name, a.trace, b.name, b.trace)
                IN  ZeroDenominator(a.name, a.trace, b.name, b.trace) =>
                        ~sim.raised /\ sim.val[1] = 0

----------------------------------------------------------------------------
Differ(A, B, j) == A[j + 1] # B[j + 1]

LeastDivergence(i, r) ==
    LET A == SeqA(i, r)
        B == SeqB(i, r)
        common == Min(Len(A), Len(B))
    IN  /\ r.max_common_len = common
        /\ r.diverge_idx \in 0..common
        /\ \A j \in 0..(r.diverge_idx - 1) : ~Differ(A, B, j)
        /\ r.diverge_idx < common => Differ(A, B, r.diverge_idx)
        /\ (\A j \in 0..(common - 1) : ~Differ(A, B, j)) => r.diverge_idx = common

DivergesInside(i, r) == 0 < r.diverge_idx /\ r.diverge_idx < r.max_common_len

(* C7: in every record, max_common_len = min(len(A), len(B)) and           *)
(* diverge_idx is the least index below max_common_len at which the        *)
(* filtered sequences A and B differ, or max_common_len (no divergence     *)
(* within the common prefix) when there is no such index.  Indices are     *)
(* the code's, 0-based.                                                    *)
C7_LeastDivergence == AllRecords(LeastDivergence)

(* C7 witness: a record of a divergence found after a non-empty common     *)
(* prefix and before the end of the shorter sequence.                      *)
C7_Witness == SomeRecord(DivergesInside)

----------------------------------------------------------------------------
\* the events of seq at the 0-based indices max(0, idx - 1) .. idx
Window(seq, idx) == [k \in 1..(idx + 1 - Max(0, idx - 1)) |-> seq[Max(0, idx - 1) + k]]

ContextIsWindow(i, r) ==
    LET A == SeqA(i, r)
        B == SeqB(i, r)
    IN  IF r.diverge_idx < Min(Len(A), Len(B))
        THEN /\ r.real_trace = Some(Window(A, r.diverge_idx))
             /\ r.e_trace = Some(Window(B, r.diverge_idx))
        ELSE r.real_trace = None /\ r.e_trace = None

ContextInside(i, r) ==
    /\ r.diverge_idx = 2
    /\ r.real_trace # None
    /\ r.real_trace[1] = SubSeq(SeqA(i, r), 2, 3)
    /\ r.e_trace[1] = SubSeq(SeqB(i, r), 2, 3)

(* C8: in every record with a divergence at index i, each side's context   *)
(* is the slice [max(0, i-1), i+1) of that side's filtered sequence; in    *)
(* every record with none, both contexts are null.                         *)
C8_ContextWindow == AllRecords(ContextIsWindow)

(* C8 witness: a record of a divergence at index 2, whose contexts are the *)
(* second and third events of the two filtered sequences.                  *)
C8_Witness == SomeRecord(ContextInside)

----------------------------------------------------------------------------
FractionMatched(i, r) ==
    LET A == SeqA(i, r)
        B == SeqB(i, r)
    IN  /\ r.max_common_len = Min(Len(A), Len(B))
        /\ r.max_common_len > 0 =>
               /\ r.sim_max_common[2] # 0
               /\ FracEq(r.sim_max_common, Frac(r.diverge_idx, r.max_common_len))
        /\ r.max_common_len = 0 => FracEq(r.sim_max_common, Frac(1, 1))
        /\ A = B =>
               /\ r.diverge_idx = r.max_common_len
               /\ r.real_trace = None
               /\ r.e_trace = None
               /\ r.sim_max_common[2] # 0
               /\ FracEq(r.sim_max_common, Frac(1, 1))

IdenticalSequences(i, r) ==
    /\ SeqA(i, r) = SeqB(i, r)
    /\ Len(SeqA(i, r)) >= 2
    /\ FracEq(r.sim_max_common, Frac(1, 1))

(* C9: in every record sim_max_common is diverge_idx / max_common_len when *)
(* max_common_len > 0 and 1.0 when it is 0; two identical filtered         *)
(* sequences give no divergence and a fraction of 1.0.                     *)
C9_FractionMatched == AllRecords(FractionMatched)

(* C9 witness: a record of two identical filtered sequences of two or more *)
(* events, with fraction 1.0.                                              *)
C9_Witness == SomeRecord(IdenticalSequences)

----------------------------------------------------------------------------
RecordShape(i, r) ==
    /\ 0 <= r.diverge_idx
    /\ r.diverge_idx <= r.max_common_len
    /\ r.real_trace = None <=> r.diverge_idx = r.max_common_len
    /\ r.e_trace = None <=> r.diverge_idx = r.max_common_len
    /\ r.real_trace # None =>
        /\ r.diverge_idx >= 1
        /\ Len(r.real_trace[1]) = 2
        /\ Len(r.e_trace[1]) = 2
        /\ r.real_trace[1][1] = r.e_trace[1][1]

ContextAtOne(i, r) == r.real_trace # None /\ r.diverge_idx = 1

(* C10: in every record 0 <= diverge_idx <= max_common_len, the contexts   *)
(* are null exactly when diverge_idx = max_common_len, and a context that  *)
(* is not null belongs to a diverge_idx >= 1, holds exactly two events,    *)
(* and starts with the same event on both sides.                           *)
C10_RecordShape == AllRecords(RecordShape)

(* C10 witness: a record with a context, of a divergence at index 1.       *)
C10_Witness == SomeRecord(ContextAtOne)

====
